---- MODULE Spec2Model ----
(***************************************************************************)
(* A model of the command-line task manager: the Task record and its       *)
(* class-level identifier counter, the Tasks store (load, save, add, done, *)
(* delete, list, report, query, sorting) and main's dispatch of one        *)
(* command per process run.                                                *)
(*                                                                         *)
(* Encoding.  A str is a sequence of one-character strings.  Python's None *)
(* is the empty tuple <<>>; a datetime is Now(n), the one-tuple <<n>> of a *)
(* clock reading; a date is the tuple <<year, month, day>>.  A --due text  *)
(* is the tuple of its "/"-separated numeric fields.                       *)
(***************************************************************************)
EXTENDS Integers, Sequences, FiniteSets, TLC

(***************************************************************************)
(* Bounds of the model.                                                    *)
(***************************************************************************)
\* datetime.now() is read at most MaxClock times in a behaviour
MaxClock == 3
\* identifiers a pre-existing pickle file may hold (LoadSpec)
MaxLoadId == 7
\* tasks in a pre-existing pickle file (LoadSpec)
MaxFileLen == 3
\* tasks in a pre-existing pickle file (SortSpec)
MaxSortLen == 3
\* characters in a --query word (QuerySpec)
MaxTextLen == 3

VARIABLES
    file,      \* .tasks.pkl: [exists, tasks]
    pc,        \* per terminal: "idle" (no process), "loaded" (Tasks() built), "exited"
    mem,       \* per terminal: the process's memory, [tasks, counter]
               \*   tasks = Tasks.tasks, counter = Task._id_counter
    args,      \* per terminal: the arguments of the last command run
    out,       \* per terminal: what the last command did: [ran, exit, printed, rows]
    before,    \* history: memory and file as the terminal's last command found them
    ver,       \* history: per terminal, the file version its run loaded and the one it saved
    writes,    \* history: the file's version, the number of saves main has made
    assigned,  \* history: the identifiers given by successful adds, in order
    now        \* the clock datetime.now() reads

vars == <<file, pc, mem, args, out, before, ver, writes, assigned, now>>

Procs == {1, 2}

(***************************************************************************)
(* Values.                                                                 *)
(***************************************************************************)
None == <<>>

Now(n) == <<n>>

Whitespace == {" "}

MaxOf(S) == CHOOSE m \in S : \A x \in S : x <= m

\* str.strip()
RECURSIVE lstrip(_)
lstrip(s) == IF s # <<>> /\ Head(s) \in Whitespace THEN lstrip(Tail(s)) ELSE s

RECURSIVE rstrip(_)
rstrip(s) ==
    IF s # <<>> /\ s[Len(s)] \in Whitespace THEN rstrip(SubSeq(s, 1, Len(s) - 1)) ELSE s

strip(s) == rstrip(lstrip(s))

\* str.lower() on the model's alphabet
lower(c) == CASE c = "A" -> "a" [] c = "B" -> "b" [] OTHER -> c

\* str.split(): the maximal runs of non-whitespace characters
RECURSIVE SplitFrom(_, _, _)
SplitFrom(s, i, word) ==
    IF i > Len(s) THEN (IF word = <<>> THEN <<>> ELSE <<word>>)
    ELSE IF s[i] \in Whitespace
         THEN (IF word = <<>> THEN <<>> ELSE <<word>>) \o SplitFrom(s, i + 1, <<>>)
         ELSE SplitFrom(s, i + 1, Append(word, s[i]))

split(s) == SplitFrom(s, 1, <<>>)

\* " ".join(words)
RECURSIVE join(_)
join(words) ==
    IF words = <<>> THEN <<>>
    ELSE IF Len(words) = 1 THEN words[1]
    ELSE words[1] \o <<" ">> \o join(Tail(words))

\* re.search(re.escape(term), name, re.IGNORECASE): scan the start offsets
RECURSIVE MatchAt(_, _, _, _)
MatchAt(term, name, k, i) ==
    IF i > Len(term) THEN TRUE
    ELSE IF k + i - 1 > Len(name) THEN FALSE
    ELSE IF lower(name[k + i - 1]) # lower(term[i]) THEN FALSE
    ELSE MatchAt(term, name, k, i + 1)

RECURSIVE SearchFrom(_, _, _)
SearchFrom(term, name, k) ==
    IF k + Len(term) - 1 > Len(name) THEN FALSE
    ELSE IF MatchAt(term, name, k, 1) THEN TRUE
    ELSE SearchFrom(term, name, k + 1)

\* a slip: re.match, which looks at the start of the name only
re_match(term, name) == MatchAt(term, name, 1, 1)

re_search(term, name) == SearchFrom(term, name, 1)

\* datetime.strptime(due, "%m/%d/%Y").date()
IsLeap(y) == (y % 4 = 0 /\ y % 100 # 0) \/ y % 400 = 0

DaysIn(m, y) ==
    IF m = 2 THEN (IF IsLeap(y) THEN 29 ELSE 28)
    ELSE IF m \in {4, 6, 9, 11} THEN 30 ELSE 31

strptime(text) ==
    IF /\ Len(text) = 3
       /\ text[1] \in 1..12
       /\ text[3] \in 1..9999
       /\ text[2] \in 1..DaysIn(text[1], text[3])
    THEN [raised |-> FALSE, date |-> <<text[3], text[1], text[2]>>]
    ELSE [raised |-> TRUE, date |-> None]

\* date.__lt__
DateLess(a, b) ==
    \/ a[1] < b[1]
    \/ a[1] = b[1] /\ a[2] < b[2]
    \/ a[1] = b[1] /\ a[2] = b[2] /\ a[3] < b[3]

(***************************************************************************)
(* class Task                                                              *)
(***************************************************************************)
\* a slip: Task._id_counter += 1 left out
Task_init_no_increment(counter, name, priority, due, t) ==
    [task |-> [created |-> Now(t), completed |-> None, name |-> name,
               unique_id |-> counter, priority |-> priority, due_date |-> due],
     counter |-> counter]

\* Task.__init__: the new task and the class counter after it
Task_init(counter, name, priority, due, t) ==
    [task |-> [created |-> Now(t), completed |-> None, name |-> name,
               unique_id |-> counter, priority |-> priority, due_date |-> due],
     counter |-> counter + 1]

mark_complete(task, t) == [task EXCEPT !.completed = Now(t)]

\* Task.set_id_counter: a value below 1 raises ValueError
set_id_counter(counter, value) ==
    IF value < 1 THEN [raised |-> TRUE, counter |-> counter]
    ELSE [raised |-> FALSE, counter |-> value]

(***************************************************************************)
(* class Tasks                                                             *)
(***************************************************************************)
Ids(tasks) == {tasks[i].unique_id : i \in 1..Len(tasks)}

\* a slip: the counter restored from the last stored task, not the maximum
_load_tasks_last(tasks, counter, f) ==
    IF ~f.exists THEN [tasks |-> tasks, counter |-> counter, raised |-> FALSE]
    ELSE IF f.tasks # <<>>
         THEN [tasks |-> f.tasks, counter |-> f.tasks[Len(f.tasks)].unique_id + 1,
               raised |-> FALSE]
         ELSE [tasks |-> f.tasks, counter |-> counter, raised |-> FALSE]

\* Tasks._load_tasks, called on tasks = [] by Tasks.__init__
_load_tasks(tasks, counter, f) ==
    IF ~f.exists THEN [tasks |-> tasks, counter |-> counter, raised |-> FALSE]
    ELSE IF f.tasks # <<>>
         THEN LET set == set_id_counter(counter, MaxOf(Ids(f.tasks)) + 1)
              IN  [tasks |-> f.tasks, counter |-> set.counter, raised |-> set.raised]
         ELSE [tasks |-> f.tasks, counter |-> counter, raised |-> FALSE]

\* Tasks.__init__
Tasks_init(counter, f) == _load_tasks(<<>>, counter, f)

\* a slip: the file opened with "ab"; pickle.load reads the first dump of a file
pickle_tasks_append(tasks, f) == IF f.exists THEN f ELSE [exists |-> TRUE, tasks |-> tasks]

\* Tasks.pickle_tasks: open(TASKS_FILE, "wb") truncates the file f, the dump fills it
pickle_tasks(tasks, f) == [exists |-> TRUE, tasks |-> tasks]

\* a slip: the priority not negated
SortKey_ascending_priority(t) == <<t.due_date = None, t.due_date, t.priority>>

\* the key of Tasks._sort_tasks
SortKey(t) == <<t.due_date = None, t.due_date, -t.priority>>

\* tuple.__lt__ on two keys: the first unequal component decides
KeyLess(a, b) ==
    IF a[1] # b[1] THEN b[1]
    ELSE IF a[2] # b[2] THEN DateLess(a[2], b[2])
    ELSE a[3] < b[3]

\* sorted() is stable: an element goes after the elements not greater than it
RECURSIVE Insert(_, _)
Insert(s, t) ==
    IF s = <<>> THEN <<t>>
    ELSE IF KeyLess(SortKey(t), SortKey(Head(s))) THEN <<t>> \o s
    ELSE <<Head(s)>> \o Insert(Tail(s), t)

RECURSIVE _sort_tasks(_)
_sort_tasks(tasks) ==
    IF tasks = <<>> THEN <<>>
    ELSE Insert(_sort_tasks(SubSeq(tasks, 1, Len(tasks) - 1)), tasks[Len(tasks)])

\* Tasks._display_tasks: the message, or one row per task in the order given
_display_tasks(tasks, report) ==
    IF tasks = <<>> THEN [printed |-> <<"No tasks found.">>, rows |-> <<>>]
    ELSE [printed |-> <<IF report THEN "report table" ELSE "list table">>, rows |-> tasks]

Incomplete(tasks) == SelectSeq(tasks, LAMBDA t : t.completed = None)

\* a slip: the early return with its own message left out
list_no_message(tasks) == _display_tasks(_sort_tasks(Incomplete(tasks)), FALSE)

\* Tasks.list
list(tasks) ==
    LET incomplete_tasks == Incomplete(tasks)
    IN  IF incomplete_tasks = <<>>
        THEN [printed |-> <<"No incomplete tasks.">>, rows |-> <<>>]
        ELSE _display_tasks(_sort_tasks(incomplete_tasks), FALSE)

\* Tasks.report
report(tasks) ==
    IF tasks = <<>> THEN [printed |-> <<"No tasks found.">>, rows |-> <<>>]
    ELSE _display_tasks(_sort_tasks(tasks), TRUE)

\* the first index holding task_id, 0 when there is none
RECURSIVE FindFrom(_, _, _)
FindFrom(tasks, task_id, i) ==
    IF i > Len(tasks) THEN 0
    ELSE IF tasks[i].unique_id = task_id THEN i
    ELSE FindFrom(tasks, task_id, i + 1)

\* a slip: self.tasks.pop() drops the last task
pop_last(tasks, i) == SubSeq(tasks, 1, Len(tasks) - 1)

\* list.pop(i)
pop(tasks, i) == SubSeq(tasks, 1, i - 1) \o SubSeq(tasks, i + 1, Len(tasks))

\* Tasks.delete
delete(tasks, task_id) ==
    LET i == FindFrom(tasks, task_id, 1)
    IN  IF i = 0 THEN [tasks |-> tasks, raised |-> TRUE, printed |-> <<>>]
        ELSE [tasks |-> pop(tasks, i), raised |-> FALSE, printed |-> <<"Deleted task">>]

\* Tasks.done
done(tasks, task_id, t) ==
    LET i == FindFrom(tasks, task_id, 1)
    IN  IF i = 0 THEN [tasks |-> tasks, raised |-> TRUE, printed |-> <<>>]
        ELSE [tasks |-> [tasks EXCEPT ![i] = mark_complete(tasks[i], t)],
              raised |-> FALSE, printed |-> <<"Completed task">>]

\* Tasks.query
query(tasks, search_terms) ==
    LET terms == split(search_terms)
        matching_tasks ==
            SelectSeq(Incomplete(tasks),
                      LAMBDA t : \E k \in 1..Len(terms) : re_search(terms[k], t.name))
    IN  _display_tasks(_sort_tasks(matching_tasks), FALSE)

\* Tasks.add
add(tasks, counter, name, priority, due, t) ==
    LET failed == [tasks |-> tasks, counter |-> counter, raised |-> TRUE,
                   printed |-> <<>>, id |-> 0]
    IN  IF strip(name) = <<>> THEN failed
        ELSE IF priority \notin {1, 2, 3} THEN failed
        ELSE LET parsed == IF due = None THEN [raised |-> FALSE, date |-> None]
                           ELSE strptime(due[1])
             IN  IF parsed.raised THEN failed
                 ELSE LET new == Task_init(counter, strip(name), priority, parsed.date, t)
                      IN  [tasks |-> Append(tasks, new.task), counter |-> new.counter,
                           raised |-> FALSE, printed |-> <<"Created Task">>,
                           id |-> new.task.unique_id]

(***************************************************************************)
(* main.py                                                                 *)
(***************************************************************************)
\* the argparse namespace when no flag is given
NoArgs ==
    [add |-> None, priority |-> 1, due |-> None, list |-> FALSE, report |-> FALSE,
     query |-> None, done |-> None, delete |-> None]

\* bool(x) of an optional str, and of an optional int
TruthyStr(o) == o # None /\ o[1] # <<>>

TruthyInt(o) == o # None /\ o[1] # 0

\* what a branch of main's try block leaves behind
Outcome(ran, tasks, counter, f, saved, ticked, exit, printed, rows, id) ==
    [ran |-> ran, tasks |-> tasks, counter |-> counter, file |-> f, saved |-> saved,
     ticked |-> ticked, exit |-> exit, printed |-> printed, rows |-> rows, id |-> id]

\* except ValueError: the guidance message and sys.exit(1), nothing saved
Failure(ran, m, f) ==
    Outcome(ran, m.tasks, m.counter, f, FALSE, FALSE, 1,
            <<"There was an error in creating your task.">>, <<>>, 0)

\* a mutating branch that did not raise: tasks.pickle_tasks() follows
Saved(ran, tasks, counter, f, ticked, printed, id) ==
    Outcome(ran, tasks, counter, pickle_tasks(tasks, f), TRUE, ticked, 0,
            printed \o <<"Tasks saved">>, <<>>, id)

\* a display branch: memory and file are left alone
Shown(ran, m, f, d) ==
    Outcome(ran, m.tasks, m.counter, f, FALSE, FALSE, 0, d.printed, d.rows, 0)

\* main's try block on namespace a, memory m, file f, with the clock at t
main(a, m, f, t) ==
    IF TruthyStr(a.add)
    THEN LET r == add(m.tasks, m.counter, a.add[1], a.priority, a.due, t)
         IN  IF r.raised THEN Failure("add", m, f)
             ELSE Saved("add", r.tasks, r.counter, f, TRUE, r.printed, r.id)
    ELSE IF a.list THEN Shown("list", m, f, list(m.tasks))
    ELSE IF a.report THEN Shown("report", m, f, report(m.tasks))
    ELSE IF a.query # None THEN Shown("query", m, f, query(m.tasks, join(a.query[1])))
    ELSE IF TruthyInt(a.done)
    THEN LET r == done(m.tasks, a.done[1], t)
         IN  IF r.raised THEN Failure("done", m, f)
             ELSE Saved("done", r.tasks, m.counter, f, TRUE, r.printed, 0)
    ELSE IF TruthyInt(a.delete)
    THEN LET r == delete(m.tasks, a.delete[1])
         IN  IF r.raised THEN Failure("delete", m, f)
             ELSE Saved("delete", r.tasks, m.counter, f, FALSE, r.printed, 0)
    ELSE Outcome("help", m.tasks, m.counter, f, FALSE, FALSE, 0, <<"usage">>, <<>>, 0)

(***************************************************************************)
(* Inputs.                                                                 *)
(***************************************************************************)
\* --add: "", " " and " a " (the last trims to "a")
NameInputs == {<<>>, <<" ">>, <<" ", "a", " ">>}

\* --priority: argparse accepts any int
PriorityInputs == {0, 1, 3, 4}

\* --due: absent, 01/05/2024, 02/30/2024 (no such day), "2024" (not the format)
DueInputs == {None, << <<1, 5, 2024>> >>, << <<2, 30, 2024>> >>, << <<2024>> >>}

\* --done, --delete: 0, the identifiers in use, and one never in use
IdInputs == 0..(MaxClock + 1)

\* --query: the words of the command line
QueryInputs == {<< <<"A">> >>, << <<" ">> >>, << <<"b">>, <<"a">> >>}

AddArgs ==
    {[NoArgs EXCEPT !.add = <<n>>, !.priority = pr, !.due = d] :
        n \in NameInputs, pr \in PriorityInputs, d \in DueInputs}

DoneArgs == {[NoArgs EXCEPT !.done = <<i>>] : i \in IdInputs}

DeleteArgs == {[NoArgs EXCEPT !.delete = <<i>>] : i \in IdInputs}

QueryArgs(words) == {[NoArgs EXCEPT !.query = <<w>>] : w \in words}

(***************************************************************************)
(* One process run per terminal at a time: Start is main up to tasks =     *)
(* Tasks(), Run is the try block and the exit.                             *)
(***************************************************************************)
NoOut == [ran |-> "none", exit |-> 0, printed |-> <<>>, rows |-> <<>>, id |-> 0]

NoFile == [exists |-> FALSE, tasks |-> <<>>]

InitWith(f) ==
    /\ file = f
    /\ pc = [p \in Procs |-> "idle"]
    /\ mem = [p \in Procs |-> [tasks |-> <<>>, counter |-> 1]]
    /\ args = [p \in Procs |-> NoArgs]
    /\ out = [p \in Procs |-> NoOut]
    /\ before = [p \in Procs |-> [tasks |-> <<>>, counter |-> 1, file |-> f]]
    /\ ver = [p \in Procs |-> [loaded |-> 0, saved |-> 0]]
    /\ writes = 0
    /\ assigned = <<>>
    /\ now = 0

Init == InitWith(NoFile)

\* a new process: Task._id_counter = 1 at import, then tasks = Tasks()
Start(p) ==
    /\ pc[p] \in {"idle", "exited"}
    /\ LET m == Tasks_init(1, file)
       IN  /\ mem' = [mem EXCEPT ![p] = [tasks |-> m.tasks, counter |-> m.counter]]
           /\ pc' = [pc EXCEPT ![p] = IF m.raised THEN "exited" ELSE "loaded"]
    /\ args' = [args EXCEPT ![p] = NoArgs]
    /\ out' = [out EXCEPT ![p] = NoOut]
    /\ ver' = [ver EXCEPT ![p] = [loaded |-> writes, saved |-> 0]]
    /\ UNCHANGED <<file, before, writes, assigned, now>>

Run(p, a) ==
    /\ pc[p] = "loaded"
    /\ LET r == main(a, mem[p], file, now + 1)
       IN  /\ r.ticked => now < MaxClock
           /\ mem' = [mem EXCEPT ![p] = [tasks |-> r.tasks, counter |-> r.counter]]
           /\ file' = r.file
           /\ out' = [out EXCEPT ![p] = [ran |-> r.ran, exit |-> r.exit,
                                         printed |-> r.printed, rows |-> r.rows,
                                         id |-> r.id]]
           /\ writes' = IF r.saved THEN writes + 1 ELSE writes
           /\ ver' = [ver EXCEPT ![p].saved = IF r.saved THEN writes + 1 ELSE 0]
           /\ assigned' = IF r.ran = "add" /\ r.exit = 0 THEN Append(assigned, r.id)
                          ELSE assigned
           /\ now' = IF r.ticked THEN now + 1 ELSE now
    /\ before' = [before EXCEPT ![p] = [tasks |-> mem[p].tasks,
                                        counter |-> mem[p].counter, file |-> file]]
    /\ args' = [args EXCEPT ![p] = a]
    /\ pc' = [pc EXCEPT ![p] = "exited"]

\* main.py --add NAME [--priority N] [--due DATE]
CmdAdd(p, inputs) ==
    \E a \in inputs :
        /\ a.add # None
        /\ Run(p, a)

\* main.py --done ID
CmdDone(p, inputs) ==
    \E a \in inputs :
        /\ a.done # None
        /\ Run(p, a)

\* main.py --delete ID
CmdDelete(p, inputs) ==
    \E a \in inputs :
        /\ a.delete # None
        /\ Run(p, a)

\* main.py --list
CmdList(p) ==
    /\ pc[p] = "loaded"
    /\ Run(p, [NoArgs EXCEPT !.list = TRUE])

\* main.py --report
CmdReport(p) ==
    /\ pc[p] = "loaded"
    /\ Run(p, [NoArgs EXCEPT !.report = TRUE])

\* main.py --query WORD [WORD ...]
CmdQuery(p, words) ==
    \E a \in QueryArgs(words) :
        /\ a.query # None
        /\ Run(p, a)

\* main.py
CmdHelp(p) ==
    /\ pc[p] = "loaded"
    /\ Run(p, NoArgs)

\* the command line used from one terminal, one run after the other
Next ==
    \/ Start(1)
    \/ CmdAdd(1, AddArgs)
    \/ CmdDone(1, DoneArgs)
    \/ CmdDelete(1, DeleteArgs)
    \/ CmdList(1)
    \/ CmdReport(1)
    \/ CmdQuery(1, QueryInputs)
    \/ CmdHelp(1)

Spec == Init /\ [][Next]_vars

(***************************************************************************)
(* ConcSpec: two terminals, one run each, over a file left by earlier      *)
(* runs; the runs interleave between Tasks() and the command.  Nothing in  *)
(* _load_tasks or pickle_tasks locks the file.                             *)
(***************************************************************************)
\* no file yet, or the file as adds of tasks 1..n left it
ConcFiles ==
    {NoFile} \cup
    {[exists |-> TRUE,
      tasks |-> [i \in 1..n |->
                    [created |-> Now(0), completed |-> None, name |-> <<"a">>,
                     unique_id |-> i, priority |-> 1, due_date |-> None]]] : n \in 0..2}

ConcAddArgs == {[NoArgs EXCEPT !.add = << <<"a">> >>, !.priority = pr] : pr \in {1, 3}}

ConcInit == \E f \in ConcFiles : InitWith(f)

ConcNext ==
    \E p \in Procs :
        \/ pc[p] = "idle" /\ Start(p)
        \/ CmdAdd(p, ConcAddArgs)
        \/ CmdDone(p, DoneArgs)
        \/ CmdDelete(p, DeleteArgs)

ConcSpec == ConcInit /\ [][ConcNext]_vars

(***************************************************************************)
(* ApiSpec: one process that builds a store and calls its methods in any   *)
(* order, saving when it likes (Tasks used as a library).  A call that     *)
(* raises changes nothing and is left out.                                 *)
(***************************************************************************)
\* tasks = Tasks() again in the same process: Task._id_counter is kept
ApiReload(p) ==
    /\ pc[p] = "loaded"
    /\ LET m == Tasks_init(mem[p].counter, file)
       IN  /\ ~m.raised
           /\ mem' = [mem EXCEPT ![p] = [tasks |-> m.tasks, counter |-> m.counter]]
    /\ UNCHANGED <<file, pc, args, out, before, ver, writes, assigned, now>>

ApiAdd(p) ==
    /\ pc[p] = "loaded"
    /\ \E a \in ConcAddArgs :
        LET r == add(mem[p].tasks, mem[p].counter, a.add[1], a.priority, a.due, now + 1)
        IN  /\ ~r.raised
            /\ now < MaxClock
            /\ mem' = [mem EXCEPT ![p] = [tasks |-> r.tasks, counter |-> r.counter]]
            /\ assigned' = Append(assigned, r.id)
            /\ now' = now + 1
    /\ UNCHANGED <<file, pc, args, out, before, ver, writes>>

ApiDone(p) ==
    /\ pc[p] = "loaded"
    /\ \E i \in IdInputs :
        LET r == done(mem[p].tasks, i, now + 1)
        IN  /\ ~r.raised
            /\ now < MaxClock
            /\ mem' = [mem EXCEPT ![p].tasks = r.tasks]
            /\ now' = now + 1
    /\ UNCHANGED <<file, pc, args, out, before, ver, writes, assigned>>

ApiDelete(p) ==
    /\ pc[p] = "loaded"
    /\ \E i \in IdInputs :
        LET r == delete(mem[p].tasks, i)
        IN  /\ ~r.raised
            /\ mem' = [mem EXCEPT ![p].tasks = r.tasks]
    /\ UNCHANGED <<file, pc, args, out, before, ver, writes, assigned, now>>

ApiSave(p) ==
    /\ pc[p] = "loaded"
    /\ file' = pickle_tasks(mem[p].tasks, file)
    /\ UNCHANGED <<pc, mem, args, out, before, ver, writes, assigned, now>>

\* the process ends; the next Start is a new one
ApiExit(p) ==
    /\ pc[p] = "loaded"
    /\ pc' = [pc EXCEPT ![p] = "exited"]
    /\ UNCHANGED <<file, mem, args, out, before, ver, writes, assigned, now>>

ApiNext ==
    \/ Start(1)
    \/ ApiExit(1)
    \/ ApiReload(1)
    \/ ApiAdd(1)
    \/ ApiDone(1)
    \/ ApiDelete(1)
    \/ ApiSave(1)

ApiSpec == Init /\ [][ApiNext]_vars

(***************************************************************************)
(* Specifications that start from a pickle file written earlier.           *)
(***************************************************************************)
\* a stored task: created before the clock starts; the name is "a"
Stored(id, name, priority, due, completed) ==
    [created |-> Now(0), completed |-> completed, name |-> name, unique_id |-> id,
     priority |-> priority, due_date |-> due]

Injective(s) == \A i, j \in 1..Len(s) : i # j => s[i] # s[j]

\* LoadSpec: identifiers in any stored order, with gaps
LoadFiles ==
    {[exists |-> TRUE,
      tasks |-> [i \in 1..Len(ids) |-> Stored(ids[i], <<"a">>, 1, None, None)]] :
        ids \in {s \in UNION {[1..n -> 1..MaxLoadId] : n \in 0..MaxFileLen} : Injective(s)}}

LoadAddArgs == {[NoArgs EXCEPT !.add = <<n>>] : n \in {<<"a">>, <<" ">>}}

LoadInit == \E f \in LoadFiles : InitWith(f)

LoadNext == Start(1) \/ CmdAdd(1, LoadAddArgs)

LoadSpec == LoadInit /\ [][LoadNext]_vars

\* SortSpec: tasks 1..n as adds left them, every due date and priority;
\* odd identifiers are named "a", even ones "b"
SortDues == {None, <<2024, 1, 10>>, <<2024, 1, 5>>, <<2023, 12, 31>>}

SortFiles ==
    {[exists |-> TRUE,
      tasks |-> [i \in 1..Len(s) |->
                    Stored(i, IF i % 2 = 1 THEN <<"a">> ELSE <<"b">>, s[i][2], s[i][1], None)]] :
        s \in UNION {[1..n -> SortDues \X {1, 2, 3}] : n \in 0..MaxSortLen}}

SortQueryInputs == {<< <<"a">> >>}

SortInit == \E f \in SortFiles : InitWith(f)

SortNext == Start(1) \/ CmdList(1) \/ CmdReport(1) \/ CmdQuery(1, SortQueryInputs)

SortSpec == SortInit /\ [][SortNext]_vars

\* QuerySpec: two stored tasks, every name of QueryNames, complete or not
Chars == {"a", "A", "b", " "}

QueryNames ==
    {<<"a">>, <<"B">>, <<"a", "b">>, <<"B", "a">>, <<"A", "a">>, <<"b", " ", "A">>}

QueryFiles ==
    {[exists |-> TRUE,
      tasks |-> [i \in 1..2 |-> Stored(i, s[i][1], 1, None, s[i][2])]] :
        s \in [1..2 -> QueryNames \X {None, Now(0)}]}

Texts(n) == UNION {[1..k -> Chars] : k \in 0..n}

\* one quoted word of up to MaxTextLen characters, or two words of up to one
QueryWords == {<<t>> : t \in Texts(MaxTextLen)} \cup {<<u, v>> : u, v \in Texts(1)}

QueryInit == \E f \in QueryFiles : InitWith(f)

QueryNext == Start(1) \/ CmdQuery(1, QueryWords)

QuerySpec == QueryInit /\ [][QueryNext]_vars

(***************************************************************************)
(* The claims.  A run is "over" at a terminal p when pc[p] = "exited":     *)
(* args[p] is its command line, before[p] the memory and file it found,    *)
(* mem[p], out[p] and file what it left.                                   *)
(***************************************************************************)
Over(p) == pc[p] = "exited" /\ out[p].ran # "none"

Range(s) == {s[i] : i \in 1..Len(s)}

\* the place of the task numbered id in a list of tasks without repeated ids
Place(tasks, id) == CHOOSE k \in 1..Len(tasks) : tasks[k].unique_id = id

AllBlank(name) == \A i \in 1..Len(name) : name[i] = " "

\* an --add command whose name, priority or due date the validation refuses
AddRefused(a) ==
    /\ a.add # None
    /\ \/ AllBlank(a.add[1])
       \/ a.priority \notin {1, 2, 3}
       \/ a.due # None /\ strptime(a.due[1]).raised

\* C1: over every sequence of add, complete and delete runs (each run loads
\* the file, applies one operation and saves), the identifier an add assigns
\* is strictly greater than the identifier of every earlier add; a deleted
\* identifier is never assigned again.
C1_IdsStrictlyIncreasing ==
    \A i, j \in 1..Len(assigned) : i < j => assigned[i] < assigned[j]

\* C2: after loading a non-empty stored collection whose identifiers form the
\* set S, in any stored order and with gaps, the next add assigns max(S) + 1
\* (8 for the stored identifiers 3, 7, 2).
C2_NextIdIsMaxPlusOne ==
    \A p \in Procs :
        (/\ Over(p)
         /\ args[p].add # None /\ ~AddRefused(args[p])
         /\ before[p].file.exists /\ before[p].file.tasks # <<>>)
        => LET S == {before[p].file.tasks[k].unique_id :
                        k \in 1..Len(before[p].file.tasks)}
               new == mem[p].tasks[Len(mem[p].tasks)]
           IN  /\ out[p].ran = "add" /\ out[p].exit = 0
               /\ Len(mem[p].tasks) = Len(before[p].file.tasks) + 1
               /\ new.unique_id - 1 \in S
               /\ \A i \in S : i < new.unique_id
               /\ out[p].id = new.unique_id
               /\ file.tasks = mem[p].tasks

C2_Witness_3_7_2 ==
    /\ Over(1) /\ out[1].ran = "add" /\ out[1].exit = 0
    /\ Len(before[1].file.tasks) = 3
    /\ before[1].file.tasks[1].unique_id = 3
    /\ before[1].file.tasks[2].unique_id = 7
    /\ before[1].file.tasks[3].unique_id = 2
    /\ mem[1].tasks[4].unique_id = 8

\* C3: in every state reached by loads, adds, completes, deletes and saves on
\* one store, no two tasks of the collection (in memory or in the file) have
\* the same identifier, so an identifier names at most one task.
C3_IdsUnique ==
    /\ \A p \in Procs : \A i, j \in 1..Len(mem[p].tasks) :
          i # j => mem[p].tasks[i].unique_id # mem[p].tasks[j].unique_id
    /\ \A i, j \in 1..Len(file.tasks) :
          i # j => file.tasks[i].unique_id # file.tasks[j].unique_id

\* three adds in one process, one task deleted, the rest saved and loaded again
C3_Witness ==
    /\ pc[1] = "loaded"
    /\ Len(assigned) = 3
    /\ Len(mem[1].tasks) = 2
    /\ file.exists /\ Len(file.tasks) = 2
    /\ mem[1].counter = 3

\* C4: once complete has set a task's completed-at, no later operation
\* clears it or changes its value while the task exists.
C4_CompletedAtNeverChanges ==
    \A p \in Procs :
        Over(p) =>
            \A i \in 1..Len(before[p].tasks), j \in 1..Len(mem[p].tasks) :
                (/\ before[p].tasks[i].unique_id = mem[p].tasks[j].unique_id
                 /\ before[p].tasks[i].completed # None)
                => mem[p].tasks[j].completed = before[p].tasks[i].completed

\* C5: a command that fails validation (add with a name empty after
\* trimming, a priority outside 1..3 or an unparseable due date; complete
\* or delete of an identifier that is not in the store) ends in an error
\* and leaves the tasks in memory, the counter and the file as they were.
C5_RefusedCommandErrorsAndChangesNothing ==
    \A p \in Procs :
        (/\ Over(p)
         /\ \/ AddRefused(args[p])
            \/ args[p].done # None /\ args[p].done[1] \notin Ids(before[p].tasks)
            \/ args[p].delete # None /\ args[p].delete[1] \notin Ids(before[p].tasks))
        => /\ out[p].exit = 1
           /\ mem[p].tasks = before[p].tasks
           /\ mem[p].counter = before[p].counter
           /\ file = before[p].file

\* C6: delete(id) with id in the store removes exactly the task with that
\* identifier: every other task stays, with all its fields, in the same
\* relative order (in memory and in the file saved after it).
C6_DeleteRemovesExactlyOne ==
    \A p \in Procs :
        (/\ Over(p)
         /\ args[p].delete # None
         /\ args[p].delete[1] \in Ids(before[p].tasks))
        => LET old == before[p].tasks
               k == Place(old, args[p].delete[1])
           IN  /\ out[p].exit = 0
               /\ Len(mem[p].tasks) = Len(old) - 1
               /\ \A j \in 1..(Len(old) - 1) :
                     mem[p].tasks[j] = IF j < k THEN old[j] ELSE old[j + 1]
               /\ file = [exists |-> TRUE, tasks |-> mem[p].tasks]

\* the first of three tasks deleted: two remain
C6_Witness ==
    /\ Over(1) /\ out[1].ran = "delete" /\ out[1].exit = 0
    /\ Len(before[1].tasks) = 3
    /\ args[1].delete = <<1>>
    /\ Len(file.tasks) = 2

\* calendar order of two dates
Earlier(d, e) ==
    \/ d[1] < e[1]
    \/ d[1] = e[1] /\ d[2] < e[2]
    \/ d[1] = e[1] /\ d[2] = e[2] /\ d[3] < e[3]

\* row x may stand above row y
InOrder(x, y, stored) ==
    /\ x.due_date = None => y.due_date = None
    /\ (x.due_date # None /\ y.due_date # None /\ x.due_date # y.due_date)
          => Earlier(x.due_date, y.due_date)
    /\ x.due_date = y.due_date => x.priority >= y.priority
    /\ (x.due_date = y.due_date /\ x.priority = y.priority)
          => Place(stored, x.unique_id) < Place(stored, y.unique_id)

\* C7: the rows list, report and query display are a permutation of the
\* tasks they show in which tasks with a due date come before tasks without,
\* due dates ascend, priority descends within one due date (and among the
\* tasks without one), and tasks equal on both keep their stored order.
C7_DisplayOrder ==
    \A p \in Procs :
        (Over(p) /\ out[p].ran \in {"list", "report", "query"})
        => LET rows == out[p].rows
               stored == before[p].tasks
           IN  /\ \A i, j \in 1..Len(rows) : i < j => InOrder(rows[i], rows[j], stored)
               /\ \A i, j \in 1..Len(rows) : i # j => rows[i] # rows[j]
               /\ Range(rows) \subseteq Range(stored)
               /\ out[p].ran = "list"
                     => Range(rows) = {t \in Range(stored) : t.completed = None}
               /\ out[p].ran = "report" => Range(rows) = Range(stored)

\* a report of three tasks, one without a due date, two alike on both keys,
\* displayed in another order than the stored one
C7_Witness ==
    /\ Over(1) /\ out[1].ran = "report"
    /\ Len(out[1].rows) = 3
    /\ out[1].rows # before[1].tasks
    /\ out[1].rows[3].due_date = None
    /\ out[1].rows[1].due_date = out[1].rows[2].due_date
    /\ out[1].rows[1].priority = out[1].rows[2].priority

\* two characters equal up to case
SameLetter(c, d) == c = d \/ {c, d} = {"a", "A"} \/ {c, d} = {"b", "B"}

\* the maximal runs of non-blank characters of one command-line word
TermsOf(w) ==
    {SubSeq(w, i, j) : <<i, j>> \in
        {ij \in (1..Len(w)) \X (1..Len(w)) :
            /\ ij[1] <= ij[2]
            /\ \A k \in ij[1]..ij[2] : w[k] # " "
            /\ ij[1] = 1 \/ w[ij[1] - 1] = " "
            /\ ij[2] = Len(w) \/ w[ij[2] + 1] = " "}}

\* term occurs in name at some offset, case ignored
Contains(name, term) ==
    \E k \in 0..(Len(name) - Len(term)) :
        \A i \in 1..Len(term) : SameLetter(name[k + i], term[i])

\* task t is incomplete and its name contains a term of the search text
Wanted(t, words) ==
    /\ t.completed = None
    /\ \E n \in 1..Len(words) : \E term \in TermsOf(words[n]) : Contains(t.name, term)

\* C8: query(text) displays exactly the incomplete tasks whose name contains,
\* without regard to case, one of the whitespace-separated terms of text; a
\* completed task is never displayed and a text without terms displays none.
C8_QueryShowsExactlyMatches ==
    \A p \in Procs :
        (Over(p) /\ args[p].query # None)
        => /\ out[p].ran = "query"
           /\ Range(out[p].rows) =
                 {t \in Range(before[p].tasks) : Wanted(t, args[p].query[1])}
           /\ \A i, j \in 1..Len(out[p].rows) : i # j => out[p].rows[i] # out[p].rows[j]
           /\ (\A n \in 1..Len(args[p].query[1]) : AllBlank(args[p].query[1][n]))
                 => out[p].rows = <<>>

\* "a" finds the incomplete task "Ba" and leaves out the completed task "Aa"
C8_Witness ==
    /\ Over(1) /\ out[1].ran = "query"
    /\ args[1].query = << << <<"a">> >> >>
    /\ Len(out[1].rows) = 1
    /\ out[1].rows[1].name = <<"B", "a">>
    /\ \E t \in Range(before[1].tasks) : t.completed # None /\ t.name = <<"A", "a">>

\* C9: list displays exactly the tasks whose completed-at is null and prints
\* "No incomplete tasks." exactly when there are none; report displays every
\* task and prints "No tasks found." exactly when the store holds none.
C9_ListAndReport ==
    \A p \in Procs :
        /\ (Over(p) /\ args[p].list)
            => LET open == {t \in Range(before[p].tasks) : t.completed = None}
               IN  /\ Range(out[p].rows) = open
                   /\ Len(out[p].rows) = Cardinality(open)
                   /\ (out[p].printed = <<"No incomplete tasks.">>) <=> (open = {})
                   /\ out[p].printed # <<"No tasks found.">>
        /\ (Over(p) /\ args[p].report)
            => /\ Range(out[p].rows) = Range(before[p].tasks)
               /\ Len(out[p].rows) = Len(before[p].tasks)
               /\ (out[p].printed = <<"No tasks found.">>) <=> (before[p].tasks = <<>>)
               /\ out[p].printed # <<"No incomplete tasks.">>

\* list on a store that is not empty and whose tasks are all complete
C9_Witness ==
    /\ Over(1) /\ args[1].list
    /\ before[1].tasks # <<>>
    /\ \A t \in Range(before[1].tasks) : t.completed # None
    /\ out[1].printed = <<"No incomplete tasks.">>

\* p's run changed the store, reported it and saved
SavedChange(p) == Over(p) /\ out[p].exit = 0 /\ ver[p].saved > 0

\* what p's command did is not in the file (q is the other process)
Lost(p, q) ==
    /\ out[p].ran = "add"
          => mem[p].tasks[Len(mem[p].tasks)] \notin Range(file.tasks)
    /\ out[p].ran = "done"
          => mem[p].tasks[Place(mem[p].tasks, args[p].done[1])] \notin Range(file.tasks)
    /\ out[p].ran = "delete"
          => \/ args[p].delete[1] \in Ids(file.tasks)
             \/ args[q].delete = args[p].delete

\* C10: with two processes on one file and no lock, when both load before
\* either saves and each applies a mutating command and saves, the file
\* afterwards holds the later saver's collection only: the earlier saver's
\* mutation, reported as done, is overwritten and lost.
C10_LaterSaveOverwrites ==
    \A p, q \in Procs :
        (/\ p # q
         /\ SavedChange(p) /\ SavedChange(q)
         /\ ver[p].loaded = ver[q].loaded
         /\ ver[p].saved < ver[q].saved)
        => /\ file = [exists |-> TRUE, tasks |-> mem[q].tasks]
           /\ before[q].tasks = before[p].tasks
           /\ Lost(p, q)

\* both loaded the same file; 1 added a task and saved, 2 added and saved later
C10_Witness ==
    /\ SavedChange(1) /\ SavedChange(2)
    /\ ver[1].loaded = ver[2].loaded
    /\ ver[1].saved < ver[2].saved
    /\ out[1].ran = "add" /\ out[1].printed = <<"Created Task", "Tasks saved">>
    /\ out[2].ran = "add"
    /\ Len(file.tasks) = Len(before[1].tasks) + 1
====
